---- MODULE Spec2Model ----
(***************************************************************************)
(* Model of src/_train_ml_model.py: the SDNMLTrainer object (its fields,   *)
(* the files it writes and reads) and the main() pipeline that drives it.  *)
(* Library calls (scikit-learn, joblib, matplotlib) are modelled by what   *)
(* they do to the trainer's fields and to the files.                       *)
(***************************************************************************)
EXTENDS Integers, Sequences, FiniteSets, TLC

VARIABLES self,   \* the SDNMLTrainer object: its attributes
          disk,   \* the files of the working directory, by name
          last,   \* the last call made on the trainer and how it ended
          nfit,   \* number of train_models runs so far (identifies fitted estimators)
          pc,     \* position of main()
          df      \* main()'s local df

vars == <<self, disk, last, nfit, pc, df>>

----------------------------------------------------------------------------
(* Bounds *)

\* accuracies are the fractions 0/MaxAcc .. MaxAcc/MaxAcc of [0,1]
MaxAcc == 1
\* number of train_models runs in one session
MaxRuns == 1
\* number of train_models runs in one behaviour of TrainSpec
MaxRetrains == 2
\* number of distinct feature vectors handed to predict_path
MaxInputs == 2
\* number of distinct path labels
NumPaths == 2

----------------------------------------------------------------------------
(* Values *)

\* the four variants, in the insertion order of the dict literal
Variants == <<"Random Forest", "K-Nearest Neighbors", "Decision Tree", "SVM">>

VariantNames == {Variants[i] : i \in 1..Len(Variants)}

\* the names feature_importance tests for
TreeBased == {"Random Forest", "Decision Tree"}

\* Python's None in an estimator-valued attribute
None == [kind |-> "None", fit |-> 0]

\* an attribute that __init__ never assigned (best_model_name)
Unset == "<no attribute>"

\* StandardScaler(): a scaler that has not been fitted
StandardScaler == [fitted |-> FALSE, part |-> "none", data |-> "none"]

\* rows below this make main() return early
MinRows == 10

PklFile == "sdn_best_model.pkl"

\* the dataset_path main() constructs the trainer with
DatasetPath == "sdn_dataset.csv"

Absent == [kind |-> "absent"]
Corrupt == [kind |-> "corrupt"]
Png == [kind |-> "png"]

\* the object joblib.dump pickles: a dict, here a function from its keys
Pickled(d) == [kind |-> "dict", data |-> d]

\* the estimator the k-th variant becomes in training run n
Estimator(k, n) == [kind |-> Variants[k], fit |-> n]

KindIndex(kind) == CHOOSE i \in 1..Len(Variants) : Variants[i] = kind

\* bool(estimator): None is falsy, a fitted estimator is truthy
Truthy(m) == m # None

----------------------------------------------------------------------------
(* The libraries, by what they do *)

\* what one method call hands back: the trainer and the files after it, how
\* it ended ("return" or the exception it raised), the value returned and
\* the messages printed
Outcome(t, d, result, value, printed) ==
    [self |-> t, disk |-> d, result |-> result, value |-> value, printed |-> printed]

\* the value of a call that returns None (or returns nothing)
NoValue == -1

\* the rows a scaler is given: the partition "X_train" or "X_test" of the
\* table read from a path, or "X_new", the one row of a flow
Partition(part, from) == [part |-> part, data |-> from]

\* StandardScaler.fit_transform(X): the scaler's parameters become those of X
fit_transform(s, X) == [fitted |-> TRUE, part |-> X.part, data |-> X.data]

\* a transform that fits again on the rows it is given
transform_refit(s, X) == fit_transform(s, X)

\* StandardScaler.transform(X): the parameters are used, not changed
transform(s, X) == s

\* estimator.predict on one scaled row: a label that depends on the
\* estimator, on the scaler that scaled the row and on the row
predict(m, s, x) ==
    (KindIndex(m.kind) + m.fit + (IF s.data = DatasetPath THEN 1 ELSE 0) + x) % NumPaths

----------------------------------------------------------------------------
(* SDNMLTrainer *)

\* __init__
SDNMLTrainer ==
    [models |-> << >>,
     scaler |-> StandardScaler,
     best_model |-> None,
     best_accuracy |-> 0,
     best_model_name |-> Unset]

\* load_data: the table read_csv returns, or None on any read error
NoTable == [read |-> FALSE, rows |-> 0, schema |-> FALSE, path |-> DatasetPath]

Table(rows, schema) ==
    [read |-> TRUE, rows |-> rows, schema |-> schema, path |-> DatasetPath]

load_data(t, d, table) ==
    IF table.read
    THEN Outcome(t, d, "return", table.rows, <<"Dataset loaded">>)
    ELSE Outcome(t, d, "return", NoValue, <<"Error loading dataset">>)

\* preprocess_data: df[feature_cols] raises KeyError on a missing column;
\* the scaler is fitted on X_train and then transforms X_test
preprocess_data(t, d, table) ==
    IF ~table.schema
    THEN Outcome(t, d, "KeyError", NoValue, <<"Preprocessing data">>)
    ELSE LET fitted == fit_transform(t.scaler, Partition("X_train", table.path))
             after == transform(fitted, Partition("X_test", table.path))
         IN Outcome([t EXCEPT !.scaler = after], d, "return", NoValue,
                    <<"Preprocessing data">>)

\* one pass of the loop body of train_models, for the k-th variant
TrainOne(t, k, acc, n) ==
    IF acc[k] > t.best_accuracy
    THEN [t EXCEPT !.best_accuracy = acc[k],
                   !.best_model = Estimator(k, n),
                   !.best_model_name = Variants[k]]
    ELSE t

\* the loop of train_models over variants k..4
RECURSIVE TrainLoop(_, _, _, _)
TrainLoop(t, k, acc, n) ==
    IF k > Len(Variants) THEN t
    ELSE TrainLoop(TrainOne(t, k, acc, n), k + 1, acc, n)

\* the results dict of train_models
Results(acc, n) ==
    [name \in VariantNames |->
        [model |-> Estimator(KindIndex(name), n),
         accuracy |-> acc[KindIndex(name)],
         predictions |-> Estimator(KindIndex(name), n)]]

\* train_models: acc[k] is the accuracy_score of the k-th variant, n the run
train_models(t, d, acc, n) ==
    Outcome([TrainLoop(t, 1, acc, n) EXCEPT !.models = Results(acc, n)],
            d, "return", NoValue, <<"TRAINING ML MODELS">>)

ComparisonChart == "model_comparison.png"
ConfusionChart == "confusion_matrix.png"
ImportanceChart == "feature_importance.png"

\* evaluate_models: the accuracy chart is saved first; then the best model's
\* name is read (AttributeError if never assigned) and looked up in
\* self.models (KeyError if it is no key); the value is the fit number of
\* the estimator whose predictions are reported
evaluate_models(t, d) ==
    LET d1 == [d EXCEPT ![ComparisonChart] = Png]
    IN IF t.best_model_name = Unset
       THEN Outcome(t, d1, "AttributeError", NoValue, <<"Saved: model_comparison.png">>)
       ELSE IF t.best_model_name \notin DOMAIN t.models
       THEN Outcome(t, d1, "KeyError", NoValue,
                    <<"Saved: model_comparison.png", "Best Model">>)
       ELSE Outcome(t, [d1 EXCEPT ![ConfusionChart] = Png], "return",
                    t.models[t.best_model_name].predictions.fit,
                    <<"Saved: model_comparison.png", "Best Model",
                      "Saved: confusion_matrix.png">>)

\* whether an estimator has the attribute feature_importances_
HasImportances(m) == m.kind \in TreeBased

\* feature_importance: decided by the best model's name; the importances
\* are then read from the best model itself
feature_importance(t, d) ==
    IF t.best_model_name = Unset
    THEN Outcome(t, d, "AttributeError", NoValue, << >>)
    ELSE IF t.best_model_name \in TreeBased
    THEN IF HasImportances(t.best_model)
         THEN Outcome(t, [d EXCEPT ![ImportanceChart] = Png], "return", NoValue,
                      <<"FEATURE IMPORTANCE", "Feature ranking",
                        "Saved: feature_importance.png">>)
         ELSE Outcome(t, d, "AttributeError", NoValue, <<"FEATURE IMPORTANCE">>)
    ELSE Outcome(t, d, "return", NoValue, << >>)

\* the dict save_model hands to joblib.dump
Bundle(t) ==
    [model |-> t.best_model,
     scaler |-> t.scaler,
     model_name |-> t.best_model_name,
     accuracy |-> t.best_accuracy]

\* a save_model without the test of best_model
save_model_unguarded(t, d, filename) ==
    IF t.best_model_name = Unset
    THEN Outcome(t, d, "AttributeError", NoValue, << >>)
    ELSE Outcome(t, [d EXCEPT ![filename] = Pickled(Bundle(t))], "return",
                 NoValue, <<"Model saved">>)

\* save_model: nothing at all when best_model is falsy; building the dict
\* reads best_model_name (AttributeError if never assigned) before the dump
save_model(t, d, filename) ==
    IF Truthy(t.best_model)
    THEN IF t.best_model_name = Unset
         THEN Outcome(t, d, "AttributeError", NoValue, << >>)
         ELSE Outcome(t, [d EXCEPT ![filename] = Pickled(Bundle(t))], "return",
                      NoValue, <<"Model saved">>)
    ELSE Outcome(t, d, "return", NoValue, << >>)

\* the keys load_model reads, in the order of its four assignments, and the
\* attribute each is assigned to
LoadKeys == <<"model", "scaler", "model_name", "accuracy">>

\* a load_model that leaves the scaler out
LoadOneWithoutScaler(t, k, data) ==
    IF k = 1 THEN [t EXCEPT !.best_model = data.model]
    ELSE IF k = 2 THEN t
    ELSE IF k = 3 THEN [t EXCEPT !.best_model_name = data.model_name]
    ELSE [t EXCEPT !.best_accuracy = data.accuracy]

\* the k-th assignment of load_model
LoadOne(t, k, data) ==
    IF k = 1 THEN [t EXCEPT !.best_model = data.model]
    ELSE IF k = 2 THEN [t EXCEPT !.scaler = data.scaler]
    ELSE IF k = 3 THEN [t EXCEPT !.best_model_name = data.model_name]
    ELSE [t EXCEPT !.best_accuracy = data.accuracy]

\* the assignments of load_model from the k-th on: data[key] raises
\* KeyError at the first key the dict lacks, after the earlier assignments
RECURSIVE LoadFrom(_, _, _, _)
LoadFrom(t, d, k, data) ==
    IF k > Len(LoadKeys)
    THEN Outcome(t, d, "return", NoValue, <<"Model loaded">>)
    ELSE IF LoadKeys[k] \notin DOMAIN data
    THEN Outcome(t, d, "KeyError", NoValue, << >>)
    ELSE LoadFrom(LoadOne(t, k, data), d, k + 1, data)

\* load_model: joblib.load raises on a missing or unreadable file
load_model(t, d, filename) ==
    IF d[filename].kind = "absent"
    THEN Outcome(t, d, "FileNotFoundError", NoValue, << >>)
    ELSE IF d[filename].kind # "dict"
    THEN Outcome(t, d, "UnpicklingError", NoValue, << >>)
    ELSE LoadFrom(t, d, 1, d[filename].data)

\* a predict_path without the test of best_model: None has no predict
predict_path_unguarded(t, d, x) ==
    IF ~t.scaler.fitted
    THEN Outcome(t, d, "NotFittedError", NoValue, << >>)
    ELSE IF ~Truthy(t.best_model)
    THEN Outcome(t, d, "AttributeError", NoValue, << >>)
    ELSE Outcome(t, d, "return", predict(t.best_model, t.scaler, x), << >>)

\* predict_path: x stands for the seven feature values of one flow
predict_path(t, d, x) ==
    IF ~Truthy(t.best_model)
    THEN Outcome(t, d, "return", NoValue, <<"Error: No trained model available">>)
    ELSE IF ~t.scaler.fitted
    THEN Outcome(t, d, "NotFittedError", NoValue, << >>)
    ELSE Outcome([t EXCEPT !.scaler = transform(t.scaler, Partition("X_new", x))],
                 d, "return", predict(t.best_model, t.scaler, x), << >>)

----------------------------------------------------------------------------
(* Inputs *)

\* the accuracies the four variants can score, as multiples of 1/MaxAcc
Accuracies == [1..Len(Variants) -> 0..MaxAcc]

\* what read_csv can yield: no table, or a table with some rows, with or
\* without the expected columns
Tables ==
    {NoTable} \cup
    {Table(rows, schema) :
        rows \in {0, MinRows - 1, MinRows, MinRows + 1},
        schema \in BOOLEAN}

\* the feature vectors predict_path is called with
Inputs == 1..MaxInputs

\* a scaler kept in a bundle of an earlier session
EarlierScaler == fit_transform(StandardScaler, Partition("X_train", "earlier dataset"))

\* what the bundle file can hold before the program starts: nothing, bytes
\* that do not unpickle, or a dict that lacks some of the four keys
Preexisting ==
    {Absent, Corrupt,
     Pickled([model |-> Estimator(2, 0)]),
     Pickled([model |-> Estimator(2, 0), scaler |-> EarlierScaler])}

Charts == {ComparisonChart, ConfusionChart, ImportanceChart}

Files == Charts \cup {PklFile}

InitialDisks ==
    {[f \in Files |-> IF f = PklFile THEN b ELSE Absent] : b \in Preexisting}

----------------------------------------------------------------------------
(* The state machine *)

\* record a call and take over its outcome
Call(op, arg, o) ==
    /\ self' = o.self
    /\ disk' = o.disk
    /\ last' = [op |-> op, arg |-> arg, result |-> o.result,
                value |-> o.value, printed |-> o.printed]

Constructed == [op |-> "__init__", arg |-> NoValue, result |-> "return",
                value |-> NoValue, printed |-> << >>]

\* a session that calls the trainer's methods in any order
Init ==
    /\ self = SDNMLTrainer
    /\ disk \in InitialDisks
    /\ last = Constructed
    /\ nfit = 0
    /\ pc = "session"
    /\ df = NoTable

\* a later session constructs a new trainer; the files stay
NewTrainer ==
    /\ pc = "session"
    /\ self' = SDNMLTrainer
    /\ last' = Constructed
    /\ UNCHANGED <<disk, nfit, pc, df>>

PreprocessData ==
    /\ pc = "session"
    /\ \E table \in {tb \in Tables : tb.rows = MinRows} :
          Call("preprocess_data", NoValue, preprocess_data(self, disk, table))
    /\ UNCHANGED <<nfit, pc, df>>

\* a call of train_models, while fewer than limit runs were made
Train(limit) ==
    /\ pc = "session"
    /\ nfit < limit
    /\ nfit' = nfit + 1
    /\ \E acc \in Accuracies :
          Call("train_models", NoValue, train_models(self, disk, acc, nfit + 1))
    /\ UNCHANGED <<pc, df>>

TrainModels == Train(MaxRuns)

EvaluateModels ==
    /\ pc = "session"
    /\ Call("evaluate_models", NoValue, evaluate_models(self, disk))
    /\ UNCHANGED <<nfit, pc, df>>

FeatureImportance ==
    /\ pc = "session"
    /\ Call("feature_importance", NoValue, feature_importance(self, disk))
    /\ UNCHANGED <<nfit, pc, df>>

SaveModel ==
    /\ pc = "session"
    /\ Call("save_model", NoValue, save_model(self, disk, PklFile))
    /\ UNCHANGED <<nfit, pc, df>>

LoadModel ==
    /\ pc = "session"
    /\ Call("load_model", NoValue, load_model(self, disk, PklFile))
    /\ UNCHANGED <<nfit, pc, df>>

PredictPath ==
    /\ pc = "session"
    /\ \E x \in Inputs : Call("predict_path", x, predict_path(self, disk, x))
    /\ UNCHANGED <<nfit, pc, df>>

Next ==
    \/ NewTrainer
    \/ PreprocessData
    \/ TrainModels
    \/ EvaluateModels
    \/ FeatureImportance
    \/ SaveModel
    \/ LoadModel
    \/ PredictPath

Spec == Init /\ [][Next]_vars

----------------------------------------------------------------------------
(* Sessions that only train, save and load *)

Retrain == Train(MaxRetrains)

TrainNext ==
    \/ Retrain
    \/ SaveModel
    \/ LoadModel
    \/ NewTrainer

TrainSpec == Init /\ [][TrainNext]_vars

----------------------------------------------------------------------------
(* main() *)

\* the flow of the example prediction at the end of main()
ExampleFlow == 1

MainInit ==
    /\ self = SDNMLTrainer
    /\ disk \in InitialDisks
    /\ last = Constructed
    /\ nfit = 0
    /\ pc = "load_data"
    /\ df = NoTable

\* a guard one row too low
InsufficientBelowNine(table) == ~table.read \/ table.rows < MinRows - 1

\* df is None or len(df) < 10
Insufficient(table) == ~table.read \/ table.rows < MinRows

\* df = trainer.load_data(), and the guard on it
MainLoadData ==
    /\ pc = "load_data"
    /\ \E table \in Tables :
          /\ Call("load_data", NoValue, load_data(self, disk, table))
          /\ df' = table
          /\ pc' = IF Insufficient(table) THEN "returned" ELSE "preprocess_data"
    /\ UNCHANGED nfit

\* one step of main(): the call, then on to the next line unless it raised
MainStep(here, o, next) ==
    /\ pc = here
    /\ Call(here, NoValue, o)
    /\ pc' = IF o.result = "return" THEN next ELSE "raised"

MainPreprocessData ==
    /\ MainStep("preprocess_data", preprocess_data(self, disk, df), "train_models")
    /\ UNCHANGED <<nfit, df>>

MainTrainModels ==
    /\ \E acc \in Accuracies :
          MainStep("train_models", train_models(self, disk, acc, nfit + 1),
                   "evaluate_models")
    /\ nfit' = nfit + 1
    /\ UNCHANGED df

MainEvaluateModels ==
    /\ MainStep("evaluate_models", evaluate_models(self, disk), "feature_importance")
    /\ UNCHANGED <<nfit, df>>

MainFeatureImportance ==
    /\ MainStep("feature_importance", feature_importance(self, disk), "save_model")
    /\ UNCHANGED <<nfit, df>>

MainSaveModel ==
    /\ MainStep("save_model", save_model(self, disk, PklFile), "predict_path")
    /\ UNCHANGED <<nfit, df>>

MainPredictPath ==
    /\ MainStep("predict_path", predict_path(self, disk, ExampleFlow), "done")
    /\ UNCHANGED <<nfit, df>>

MainNext ==
    \/ MainLoadData
    \/ MainPreprocessData
    \/ MainTrainModels
    \/ MainEvaluateModels
    \/ MainFeatureImportance
    \/ MainSaveModel
    \/ MainPredictPath

MainSpec == MainInit /\ [][MainNext]_vars

----------------------------------------------------------------------------
(* Properties of main() *)

\* the accuracy the k-th variant scored in the last training run
Scored(k) == self.models[Variants[k]].accuracy

\* the first variant, in iteration order, that scored the highest accuracy
FirstMaximum ==
    CHOOSE k \in 1..Len(Variants) :
        /\ \A j \in 1..Len(Variants) : Scored(j) <= Scored(k)
        /\ \A j \in 1..(k - 1) : Scored(j) < Scored(k)

\* C1: when train_models has completed on the freshly constructed trainer
\* of main(), best_accuracy is the highest accuracy of the four variants
\* and best_model / best_model_name are the first variant, in iteration
\* order, that scored it.
C1_BestIsFirstMaximum ==
    pc = "evaluate_models" =>
        /\ self.best_accuracy = Scored(FirstMaximum)
        /\ self.best_model_name = Variants[FirstMaximum]
        /\ self.best_model = self.models[Variants[FirstMaximum]].model

\* no file has been written by this run
NothingWritten ==
    /\ \A c \in Charts : disk[c] = Absent
    /\ disk[PklFile] \in Preexisting

\* C2: when load_data gives no table or a table of fewer than 10 rows,
\* main() returns before preprocess_data, train_models, evaluate_models,
\* feature_importance and save_model: the last call is load_data, the
\* trainer is as constructed and no bundle and no chart has been written.
C2_ShortTableWritesNothing ==
    (pc # "load_data" /\ (~df.read \/ df.rows < 10)) =>
        /\ pc = "returned"
        /\ last.op = "load_data"
        /\ self = SDNMLTrainer
        /\ nfit = 0
        /\ NothingWritten

C2_Witness == pc = "returned" /\ df.read /\ df.rows = 9

\* the lines of main() in the order it runs them
MainOrder ==
    <<"load_data", "preprocess_data", "train_models", "evaluate_models",
      "feature_importance", "save_model", "predict_path", "done">>

\* C8: every run of main() that passes the row guard and whose
\* preprocessing completes ends having called save_model, with the bundle
\* file holding the best model, its scaler, its name and its accuracy, for
\* every outcome of the four accuracies; the calls are made in the order
\* load_data, preprocess_data, train_models, evaluate_models,
\* feature_importance, save_model, predict_path.
C8_MainReachesSave ==
    /\ (pc \in {"returned", "raised", "done"} /\ ~Insufficient(df) /\ df.schema) =>
          /\ pc = "done"
          /\ Truthy(self.best_model)
          /\ disk[PklFile] = Pickled(Bundle(self))
    /\ \A i \in 2..Len(MainOrder) : pc = MainOrder[i] => last.op = MainOrder[i - 1]

----------------------------------------------------------------------------
(* Properties of sessions *)

\* the four attributes a bundle carries
Restored(t) == <<t.best_model, t.scaler, t.best_model_name, t.best_accuracy>>

\* what predict_path gives on a trainer, for every flow
Predictions(t) ==
    [x \in Inputs |->
        <<predict_path(t, disk, x).result, predict_path(t, disk, x).value>>]

\* load_model on trainer t gives back what this trainer holds
LoadsBack(t) ==
    LET o == load_model(t, disk, PklFile)
    IN /\ o.result = "return"
       /\ Restored(o.self) = Restored(self)
       /\ Predictions(o.self) = Predictions(self)

\* C3: once save_model has written the bundle, load_model of that file, on
\* the same trainer or on a freshly constructed one, gives best_model,
\* scaler, best_model_name and best_accuracy as they were at the save, and
\* so the same predict_path result for every flow; and a trainer that has
\* just loaded holds exactly what the file holds.
C3_SaveLoadRoundTrip ==
    /\ (last.op = "save_model" /\ last.printed = <<"Model saved">>) =>
          /\ LoadsBack(self)
          /\ LoadsBack(SDNMLTrainer)
    /\ (last.op = "load_model" /\ last.result = "return") =>
          /\ disk[PklFile] = Pickled(Bundle(self))
          /\ LoadsBack(self)

C3_Witness ==
    /\ last.op = "load_model"
    /\ last.result = "return"
    /\ self.models = << >>
    /\ self.best_model.fit > 0
    /\ self.scaler.fitted
    /\ self.scaler.data = DatasetPath

\* a scaler is unfitted or holds the parameters of a train partition
FromTrainPartition(s) == s.fitted => s.part = "X_train"

\* C4: the scaler of the trainer, and the scaler of any bundle on disk, is
\* unfitted or fitted on a train partition; the trainer's scaler changes
\* only in preprocess_data (to one fitted on X_train of the table), in
\* load_model (to the one the file holds) and in construction, never in
\* train_models, evaluate_models, feature_importance, save_model or
\* predict_path.
C4_ScalerFittedOnTrainOnly ==
    /\ [](/\ FromTrainPartition(self.scaler)
          /\ (disk[PklFile].kind = "dict" /\ "scaler" \in DOMAIN disk[PklFile].data)
                => FromTrainPartition(disk[PklFile].data.scaler))
    /\ [][self'.scaler # self.scaler =>
            \/ /\ last'.op = "preprocess_data"
               /\ self'.scaler = fit_transform(self.scaler, Partition("X_train", DatasetPath))
            \/ /\ last'.op = "load_model"
               /\ self'.scaler = disk[PklFile].data.scaler
            \/ /\ last'.op = "__init__"
               /\ self'.scaler = StandardScaler]_vars

C4_Witness ==
    /\ last.op = "predict_path"
    /\ last.value # NoValue
    /\ self.scaler = fit_transform(StandardScaler, Partition("X_train", DatasetPath))
    /\ disk[ComparisonChart] = Png

\* C5 as claimed: save_model with best_model None writes nothing, prints a
\* message, raises nothing and leaves the trainer as it was.
C5_NoOpSaveWithMessage ==
    [][(last'.op = "save_model" /\ self.best_model = None) =>
          /\ disk' = disk
          /\ self' = self
          /\ last'.result = "return"
          /\ last'.printed # << >>]_vars

\* C5 as amended: save_model with best_model None writes nothing, prints
\* nothing, raises nothing and leaves the trainer as it was.
C5_SilentNoOpSave ==
    [][(last'.op = "save_model" /\ self.best_model = None) =>
          /\ disk' = disk
          /\ self' = self
          /\ last'.result = "return"
          /\ last'.printed = << >>]_vars

C5_Witness ==
    /\ last.op = "save_model"
    /\ self.best_model = None
    /\ self.models # << >>
    /\ last.printed = << >>
    /\ disk[PklFile] = Absent

\* predict_path left the trainer and the files as they were
PredictFrame == self' = self /\ disk' = disk

\* C6 as claimed: predict_path returns None exactly when best_model is
\* None, and otherwise returns the label the best model predicts for the
\* flow scaled by the current scaler; either way nothing changes.
C6_PredictReturnsLabelOrNone ==
    [][last'.op = "predict_path" =>
          /\ PredictFrame
          /\ last'.result = "return"
          /\ IF self.best_model = None
             THEN last'.value = NoValue
             ELSE last'.value = predict(self.best_model, self.scaler, last'.arg)]_vars

\* C6 as amended: predict_path returns None exactly when best_model is
\* None; with a best model and a fitted scaler it returns the label the
\* best model predicts for the flow scaled by the current scaler; with a
\* best model and a scaler that was never fitted it raises NotFittedError
\* and returns nothing; in every case nothing changes.
C6_PredictLabelNoneOrNotFitted ==
    [][last'.op = "predict_path" =>
          /\ PredictFrame
          /\ (last'.result = "return" /\ last'.value = NoValue) <=> self.best_model = None
          /\ (self.best_model # None /\ self.scaler.fitted) =>
                /\ last'.result = "return"
                /\ last'.value = predict(self.best_model, self.scaler, last'.arg)
          /\ (self.best_model # None /\ ~self.scaler.fitted) =>
                /\ last'.result = "NotFittedError"
                /\ last'.value = NoValue]_vars

C6_Witness ==
    /\ last.op = "predict_path"
    /\ last.result = "return"
    /\ self.best_model.fit > 0
    /\ self.scaler.fitted
    /\ last.value = predict(self.best_model, self.scaler, last.arg)

\* C7: feature_importance writes feature_importance.png and prints the
\* ranking if and only if the best model exposes importances; when the
\* best model is K-Nearest Neighbors or SVM it returns silently, with no
\* file written, no error and the trainer as it was.
C7_ImportanceIffTreeBased ==
    [][last'.op = "feature_importance" =>
          /\ self' = self
          /\ ("Saved: feature_importance.png" \in {last'.printed[i] : i \in DOMAIN last'.printed}
                <=> (self.best_model # None /\ HasImportances(self.best_model)))
          /\ disk' # disk => (self.best_model # None /\ HasImportances(self.best_model))
          /\ self.best_model.kind \in {"K-Nearest Neighbors", "SVM"} =>
                /\ last'.result = "return"
                /\ last'.printed = << >>
                /\ disk' = disk]_vars

\* C10: load_model either returns with all four attributes replaced by the
\* file's values, or raises and leaves all four exactly as they were.
C10_LoadAllOrNothing ==
    [][last'.op = "load_model" =>
          \/ /\ last'.result = "return"
             /\ disk[PklFile].kind = "dict"
             /\ Bundle(self') = disk[PklFile].data
          \/ /\ last'.result # "return"
             /\ Restored(self') = Restored(self)]_vars

----------------------------------------------------------------------------
(* Properties of sessions that train, save and load *)

\* C9: when the last call was train_models, best_model_name is a key of
\* self.models, and that entry's model is best_model and its accuracy is
\* best_accuracy.
C9_BestAgreesWithRegistry ==
    last.op = "train_models" =>
        /\ self.best_model_name \in DOMAIN self.models
        /\ self.models[self.best_model_name].model = self.best_model
        /\ self.models[self.best_model_name].accuracy = self.best_accuracy

\* the case of C9 in which some variant of the last run scored above zero
C9_StaleBestReached ==
    /\ last.op = "train_models"
    /\ \E k \in 1..Len(Variants) : Scored(k) > 0
    /\ self.best_model_name \in DOMAIN self.models
    /\ self.models[self.best_model_name].model # self.best_model

====
